---- MODULE Spec2Model ----
(***************************************************************************)
(* Model of the ppopgi cache worker: a read-through GraphQL cache with an  *)
(* in-process in-flight registry in front of one upstream origin.          *)
(*                                                                         *)
(* Two iterations of the worker are in the repository: src/src/index.ts    *)
(* (impl = "index") and src/unnamed/part_000 (impl = "legacy").  The       *)
(* variable impl says which of the two the instance runs.                  *)
(***************************************************************************)
EXTENDS Integers, Sequences, FiniteSets, TLC

(***************************************************************************)
(* Bounds of the model.                                                    *)
(***************************************************************************)
NReq == 2
NMeta == 2

Req == 1..NReq
Meta == 1..NMeta
Impls == {"index", "legacy"}

Min(a, b) == IF a <= b THEN a ELSE b
Max(a, b) == IF a >= b THEN a ELSE b

(***************************************************************************)
(* JSON values.  Every value is a record of the same shape so that any two *)
(* values can be compared: t is the type tag, n the number counted in      *)
(* halves (so 2.5 is n = 5), s the text of a string as a sequence of       *)
(* tokens, kids the members of an array or object in insertion order, each *)
(* [k |-> key, v |-> value] (k = "" for array elements).  A non-finite     *)
(* number (JSON.parse("1e999")) has t = "inf" and n = its sign.            *)
(***************************************************************************)
JNull == [t |-> "null", n |-> 0, s |-> <<>>, kids |-> <<>>]
JNum(h) == [t |-> "num", n |-> h, s |-> <<>>, kids |-> <<>>]
Num(x) == JNum(2 * x)
JInf(sign) == [t |-> "inf", n |-> sign, s |-> <<>>, kids |-> <<>>]
JStr(tokens) == [t |-> "str", n |-> 0, s |-> tokens, kids |-> <<>>]
JArr(elems) ==
    [t |-> "arr", n |-> 0, s |-> <<>>,
     kids |-> [i \in 1..Len(elems) |-> [k |-> "", v |-> elems[i]]]]
JObj(entries) == [t |-> "obj", n |-> 0, s |-> <<>>, kids |-> entries]
KV(key, val) == [k |-> key, v |-> val]

isNumber(v) == v.t \in {"num", "inf"}
isObjectLike(v) == v.t \in {"arr", "obj"}

(***************************************************************************)
(* clampInt: Math.trunc, then Math.max with min, then Math.min with max;   *)
(* a non-finite number gives min.                                          *)
(***************************************************************************)
trunc(h) == IF h >= 0 THEN h \div 2 ELSE -((-h) \div 2)

clampIntNoCeiling(v, min, max) ==
    IF v.t # "num" THEN Num(min) ELSE Num(Max(trunc(v.n), min))

clampInt(v, min, max) ==
    IF v.t # "num" THEN Num(min) ELSE Num(Min(Max(trunc(v.n), min), max))

FIRST_MIN == 1
FIRST_MAX == 200
LEGACY_FIRST_MAX == 50
SKIP_MIN == 0
SKIP_MAX == 100000
IDS_MAX == 200

firstMax(im) == IF im = "index" THEN FIRST_MAX ELSE LEGACY_FIRST_MAX

\* k.endsWith("Ids"), over the key names the model uses
endsWithIds(k) == k \in {"tokenIds", "raffleIds"}

slice(kids, len) == SubSeq(kids, 1, Min(Len(kids), len))

(***************************************************************************)
(* clampPagination: walk visits every key of every array and object; the   *)
(* value stored under the key is clamped (first, skip) or cut (ids), and   *)
(* the value that was there before is walked in place.                     *)
(***************************************************************************)
RECURSIVE walk(_, _)
walkMember(im, e) ==
    LET k == e.k
        v == e.v
    IN  IF k = "first" /\ isNumber(v) THEN KV(k, clampInt(v, FIRST_MIN, firstMax(im)))
        ELSE IF k = "skip" /\ isNumber(v) THEN KV(k, clampInt(v, SKIP_MIN, SKIP_MAX))
        ELSE IF (k = "ids" \/ endsWithIds(k)) /\ v.t = "arr"
             THEN KV(k, [walk(im, v) EXCEPT !.kids = slice(@, IDS_MAX)])
        ELSE KV(k, walk(im, v))

walk(im, obj) ==
    IF ~isObjectLike(obj) THEN obj
    ELSE [obj EXCEPT !.kids = [i \in 1..Len(obj.kids) |-> walkMember(im, obj.kids[i])]]

clampPaginationIdentity(im, variables) == variables

clampPagination(im, variables) == walk(im, variables)

(***************************************************************************)
(* canonicalStringify: objects get their keys sorted, arrays keep their    *)
(* order; JSON.stringify then writes a non-finite number as null.  The     *)
(* text is modelled by the normalised tree it is the rendering of.         *)
(***************************************************************************)
KeyOrder == <<"", "first", "ids", "query", "skip", "tokenIds", "v", "variables", "where">>
Rank(k) == CHOOSE i \in 1..Len(KeyOrder) : KeyOrder[i] = k

RECURSIVE sortKeys(_)
sortKeys(kids) ==
    IF kids = <<>> THEN <<>>
    ELSE LET i == CHOOSE j \in 1..Len(kids) :
                      \A m \in 1..Len(kids) : Rank(kids[j].k) <= Rank(kids[m].k)
         IN  <<kids[i]>> \o
             sortKeys([m \in 1..(Len(kids) - 1) |-> IF m < i THEN kids[m] ELSE kids[m + 1]])

RECURSIVE helper(_)
helper(v) ==
    IF v.t = "inf" THEN JNull
    ELSE IF v.t = "arr"
         THEN [v EXCEPT !.kids = [i \in 1..Len(v.kids) |-> KV("", helper(v.kids[i].v))]]
    ELSE IF v.t = "obj"
         THEN LET sorted == sortKeys(v.kids)
              IN  [v EXCEPT !.kids =
                      [i \in 1..Len(sorted) |-> KV(sorted[i].k, helper(sorted[i].v))]]
    ELSE v

canonicalStringify(value) == helper(value)

\* JSON.stringify of the upstream body: insertion order kept, non-finite -> null
RECURSIVE stringify(_)
stringify(v) ==
    IF v.t = "inf" THEN JNull
    ELSE IF isObjectLike(v)
         THEN [v EXCEPT !.kids = [i \in 1..Len(v.kids) |-> KV(v.kids[i].k, stringify(v.kids[i].v))]]
    ELSE v

\* SHA-256 is taken to be free of collisions: the digest stands for its input
sha256Hex(input) == <<"sha256", input>>

KEY_VERSION == 5
LEGACY_KEY_VERSION == 1
keyVersion(im) == IF im = "index" THEN KEY_VERSION ELSE LEGACY_KEY_VERSION

hashKeyOfQueryOnly(im, query, variables) ==
    sha256Hex(canonicalStringify(
        JObj(<<KV("v", Num(keyVersion(im))), KV("query", JStr(query))>>)))

hashKey(im, query, variables) ==
    sha256Hex(canonicalStringify(
        JObj(<<KV("v", Num(keyVersion(im))), KV("query", JStr(query)),
               KV("variables", variables)>>)))

(***************************************************************************)
(* Texts.  A query is its sequence of tokens; an error message is its      *)
(* sequence of characters.                                                 *)
(***************************************************************************)
QInline == <<"{", "a", "(", "first", ":", "9999", ")", "}">>
QVar == <<"{", "a", "(", "first", ":", "$first", ")", "}">>

\* what the request body parses to (JSON.parse): query and variables
Bodies ==
    << [query |-> QInline, variables |-> JObj(<<>>)],
       [query |-> QVar, variables |-> JObj(<<KV("first", Num(9999))>>)],
       [query |-> QVar, variables |-> JObj(<<KV("first", Num(5000))>>)],
       [query |-> QVar, variables |-> JObj(<<KV("first", JInf(1))>>)] >>
BodyIds == 1..Len(Bodies)

TimeoutMsg == <<"t", "i", "m", "e", "o", "u", "t">>
LostMsg == <<"L", "o", "s", "t">>
NullBodyMsg == <<"N", "u", "l", "l", "B", "o", "d", "y">>

toLowerCase(msg) ==
    [i \in 1..Len(msg) |->
        CASE msg[i] = "L" -> "l"
          [] msg[i] = "N" -> "n"
          [] msg[i] = "B" -> "b"
          [] msg[i] = "T" -> "t"
          [] msg[i] = "Feed" -> "feed"
          [] msg[i] = "Events" -> "events"
          [] msg[i] = "By" -> "by"
          [] msg[i] = "Id" -> "id"
          [] msg[i] = "Participants" -> "participants"
          [] OTHER -> msg[i]]

includes(hay, needle) ==
    \E i \in 1..(Len(hay) - Len(needle) + 1) :
        SubSeq(hay, i, i + Len(needle) - 1) = needle

isAbortTimeoutNever(msg) == FALSE

isAbortTimeout(msg) == includes(toLowerCase(msg), TimeoutMsg)

(***************************************************************************)
(* Response bodies and in-flight values.                                   *)
(***************************************************************************)
NoText == [kind |-> "none", error |-> "", message |-> <<>>, data |-> 0]
DataText(d) == [kind |-> "data", error |-> "", message |-> <<>>, data |-> d]
ErrorText(code, msg) == [kind |-> "error", error |-> code, message |-> msg, data |-> 0]

UpstreamStatuses == {200, 204, 500}
isOkStatus(status) == 200 <= status /\ status <= 299
isNullBodyStatus(status) == status \in {101, 204, 205, 304}

NoValue == [status |-> 0, text |-> NoText, ok |-> FALSE, rejected |-> FALSE]
InflightValue(status, text, ok) ==
    [status |-> status, text |-> text, ok |-> ok, rejected |-> FALSE]
Rejection(msg) ==
    [status |-> 0, text |-> ErrorText("", msg), ok |-> FALSE, rejected |-> TRUE]

NoResp == [status |-> 0, text |-> NoText, xcache |-> ""]
makeTextResponse(v, xCache) == [status |-> v.status, text |-> v.text, xcache |-> xCache]
addHeadersKeepsXCache(res, xCache) == res

addHeaders(res, xCache) == [res EXCEPT !.xcache = xCache]

\* the catch of the driver computation: the synthesized entry
failureValueRethrows(msg) == Rejection(msg)

failureValueAlways502(msg) ==
    InflightValue(502, ErrorText("UPSTREAM_FETCH_FAILED", msg), FALSE)

failureValue(msg) ==
    InflightValue(IF isAbortTimeout(msg) THEN 504 ELSE 502,
                  ErrorText(IF isAbortTimeout(msg) THEN "UPSTREAM_TIMEOUT"
                                                   ELSE "UPSTREAM_FETCH_FAILED", msg),
                  FALSE)

(***************************************************************************)
(* The in-flight registry: a Map from cache key to the computation         *)
(* registered for it.  A computation is named by the request that drives   *)
(* it; NoComp is undefined.                                                *)
(***************************************************************************)
NoComp == 0

inflightGetOtherKey(map, key) == NoComp

inflightGet(map, key) == IF key \in DOMAIN map THEN map[key] ELSE NoComp

inflightSet(map, key, c) == [k \in DOMAIN map \cup {key} |-> IF k = key THEN c ELSE map[k]]

inflightDeleteNothing(map, key) == map

inflightDelete(map, key) == [k \in DOMAIN map \ {key} |-> map[k]]

EmptyMap == [k \in {} |-> NoComp]

(***************************************************************************)
(* State.                                                                  *)
(*   impl      which iteration of the worker runs                          *)
(*   pc        where each request's handler stands: "idle" (not arrived),  *)
(*             "match" (awaiting cache.match), "await" (awaiting the       *)
(*             registered promise), "done" (answered), "threw" (the        *)
(*             handler ended in an exception), "gone" (caller cancelled)   *)
(*   body      the request's body (index into Bodies, 0 = none)            *)
(*   hkey      the request's cache key                                     *)
(*   matched   how the cache.match of a suspended handler ended            *)
(*   awaiting  the computation the request awaits                          *)
(*   resp      the response returned                                       *)
(*   calls     upstream calls issued by the request's handler              *)
(*   sent      the body of the upstream call                               *)
(*   comp      the computation each request drives                         *)
(*   inflight  the in-flight registry                                      *)
(*   store     the durable cache (caches.default)                          *)
(*   puts      cache.put calls handed to ctx.waitUntil, not yet finished   *)
(*   meta      the requests to /meta (index.ts): where each stands, the    *)
(*             upstream calls it issued and the status it was answered     *)
(*   seen      the requests that had arrived and were not yet answered     *)
(*             when the request arrived (history, read by no action)       *)
(*   probe     the argument and the result of a function applied on its    *)
(*             own (clampPagination, pickTtlSeconds)                       *)
(***************************************************************************)
VARIABLES impl, pc, body, hkey, matched, awaiting, resp, calls, sent, comp,
          inflight, store, puts, meta, probe, seen

vars == <<impl, pc, body, hkey, matched, awaiting, resp, calls, sent, comp,
          inflight, store, puts, meta, probe, seen>>

NoKey == <<"", JNull>>
NoSent == [query |-> <<>>, variables |-> JNull]
NoComputation == [st |-> "none", val |-> NoValue, cause |-> ""]
NoMeta == [st |-> "idle", calls |-> 0, status |-> 0, error |-> ""]
NoProbe == [fn |-> "", input |-> JNull, output |-> JNull, applied |-> FALSE]

Unsettled == {"fetching", "reading"}

InitWorker ==
    /\ impl \in Impls
    /\ pc = [r \in Req |-> "idle"]
    /\ body = [r \in Req |-> 0]
    /\ hkey = [r \in Req |-> NoKey]
    /\ matched = [r \in Req |-> ""]
    /\ awaiting = [r \in Req |-> NoComp]
    /\ resp = [r \in Req |-> NoResp]
    /\ calls = [r \in Req |-> 0]
    /\ sent = [r \in Req |-> NoSent]
    /\ comp = [r \in Req |-> NoComputation]
    /\ inflight = EmptyMap
    /\ store = EmptyMap
    /\ puts = {}
    /\ meta = [m \in Meta |-> NoMeta]
    /\ seen = [r \in Req |-> {}]

Init ==
    /\ InitWorker
    /\ probe = NoProbe

(***************************************************************************)
(* The promise reactions that follow the settling of a computation (the    *)
(* finally callback, the continuations of `await p` and `await existing`)  *)
(* run as microtasks of the event that settled it: the runtime delivers no *)
(* other event to a handler of the instance until they have run.           *)
(***************************************************************************)
Draining == \E r \in Req : pc[r] = "await" /\ comp[awaiting[r]].st = "settled"

(***************************************************************************)
(* A request arrives: the body is parsed, the variables clamped, the key   *)
(* derived, and the handler suspends in cache.match.  Requests are         *)
(* numbered in the order they arrive.                                      *)
(***************************************************************************)
Arrive(r, b) ==
    /\ ~Draining
    /\ pc[r] = "idle"
    /\ \A q \in Req : q < r => pc[q] # "idle"
    /\ LET query == Bodies[b].query
           variables == clampPagination(impl, Bodies[b].variables)
       IN  /\ query # <<>>
           /\ hkey' = [hkey EXCEPT ![r] = hashKey(impl, query, variables)]
    /\ body' = [body EXCEPT ![r] = b]
    /\ pc' = [pc EXCEPT ![r] = "match"]
    /\ seen' = [seen EXCEPT ![r] = {q \in Req : pc[q] \in {"match", "await"}}]
    /\ UNCHANGED <<probe, meta, impl, matched, awaiting, resp, calls, sent, comp, inflight, store,
                   puts>>

(***************************************************************************)
(* The in-flight dedupe: everything from inflight.get to `await p` runs    *)
(* without suspension.  The driver computation runs to its first await     *)
(* (the upstream fetch is issued) before the registration is written.      *)
(***************************************************************************)
Dedupe(r) ==
    LET existing == inflightGet(inflight, hkey[r])
    IN  IF existing # NoComp
        THEN /\ awaiting' = [awaiting EXCEPT ![r] = existing]
             /\ pc' = [pc EXCEPT ![r] = "await"]
             /\ UNCHANGED <<calls, sent, comp, inflight>>
        ELSE /\ calls' = [calls EXCEPT ![r] = @ + 1]
             /\ sent' = [sent EXCEPT ![r] =
                    [query |-> Bodies[body[r]].query,
                     variables |-> stringify(clampPagination(impl, Bodies[body[r]].variables))]]
             /\ comp' = [comp EXCEPT ![r] = [NoComputation EXCEPT !.st = "fetching"]]
             /\ inflight' = inflightSet(inflight, hkey[r], r)
             /\ awaiting' = [awaiting EXCEPT ![r] = r]
             /\ pc' = [pc EXCEPT ![r] = "await"]

\* cache.match finds the entry: the stored response goes out with X-Cache HIT
MatchHit(r) ==
    /\ ~Draining
    /\ pc[r] = "match"
    /\ hkey[r] \in DOMAIN store
    /\ resp' = [resp EXCEPT ![r] = addHeaders(store[hkey[r]], "HIT")]
    /\ pc' = [pc EXCEPT ![r] = "done"]
    /\ UNCHANGED <<seen, probe, meta, impl, body, hkey, matched, awaiting, calls, sent, comp, inflight, store, puts>>

\* cache.match finds nothing
MatchMiss(r) ==
    /\ ~Draining
    /\ pc[r] = "match"
    /\ hkey[r] \notin DOMAIN store
    /\ matched' = [matched EXCEPT ![r] = "miss"]
    /\ Dedupe(r)
    /\ UNCHANGED <<seen, probe, meta, impl, body, hkey, resp, store, puts>>

MatchFailRethrows(r) ==
    /\ ~Draining
    /\ impl = "index"
    /\ pc[r] = "match"
    /\ pc' = [pc EXCEPT ![r] = "threw"]
    /\ UNCHANGED <<seen, probe, meta, impl, body, hkey, matched, awaiting, resp, calls, sent, comp, inflight, store,
                   puts>>

\* cache.match throws; index.ts catches and logs it
MatchFail(r) ==
    /\ ~Draining
    /\ impl = "index"
    /\ pc[r] = "match"
    /\ matched' = [matched EXCEPT ![r] = "fail"]
    /\ Dedupe(r)
    /\ UNCHANGED <<seen, probe, meta, impl, body, hkey, resp, store, puts>>

\* part_000 does not guard cache.match: the handler ends in the exception
LegacyMatchFail(r) ==
    /\ ~Draining
    /\ impl = "legacy"
    /\ pc[r] = "match"
    /\ pc' = [pc EXCEPT ![r] = "threw"]
    /\ UNCHANGED <<seen, probe, meta, impl, body, hkey, matched, awaiting, resp, calls, sent, comp, inflight, store,
                   puts>>

(***************************************************************************)
(* The driver computation.  st: "fetching" (awaiting the upstream fetch,   *)
(* the abort timer armed in index.ts), "reading" (headers received, timer  *)
(* cleared, awaiting upstream.text()), "settled" (the async function has   *)
(* returned or thrown, the finally callback has deleted the key and the    *)
(* registered promise p is settled; its awaiters have yet to resume).      *)
(***************************************************************************)
settle(c, value, cause) ==
    /\ comp' = [comp EXCEPT ![c] = [@ EXCEPT !.st = "settled", !.val = value, !.cause = cause]]
    /\ inflight' = inflightDelete(inflight, hkey[c])

\* the origin answers: fetch resolves, fetchWithTimeout clears the timer
HeadersArrive(c) ==
    /\ ~Draining
    /\ comp[c].st = "fetching"
    /\ comp' = [comp EXCEPT ![c] = [@ EXCEPT !.st = "reading"]]
    /\ UNCHANGED <<seen, probe, meta, impl, pc, body, hkey, matched, awaiting, resp, calls, sent, inflight,
                   store, puts>>

\* the fetch fails in transport; the catch synthesizes the entry
FetchFail(c) ==
    /\ ~Draining
    /\ impl = "index"
    /\ comp[c].st = "fetching"
    /\ settle(c, failureValue(LostMsg), "transport")
    /\ UNCHANGED <<seen, probe, meta, impl, pc, body, hkey, matched, awaiting, resp, calls, sent,
                   store, puts>>

\* the timer fires: ac.abort(new Error("timeout")) rejects the fetch
Timeout(c) ==
    /\ ~Draining
    /\ impl = "index"
    /\ comp[c].st = "fetching"
    /\ settle(c, failureValue(TimeoutMsg), "abort")
    /\ UNCHANGED <<seen, probe, meta, impl, pc, body, hkey, matched, awaiting, resp, calls, sent,
                   store, puts>>

shouldCacheAlways(v) == TRUE

\* if (v.ok)
shouldCache(v) == v.ok

\* upstream.text() resolves: the value is built, cached if ok, and returned.
\* The origin may answer every call with another text: the text of its answer
\* to the call of computation c is named c.
\* new Response(text, {status}) throws for a null body status; the throw is
\* inside the try.
BodyComplete(c, status) ==
    /\ ~Draining
    /\ impl = "index"
    /\ comp[c].st = "reading"
    /\ LET v == InflightValue(status, DataText(c), isOkStatus(status))
       IN  IF shouldCache(v)
           THEN IF isNullBodyStatus(v.status)
                THEN /\ settle(c, failureValue(NullBodyMsg), "construct")
                     /\ puts' = puts
                ELSE /\ puts' = puts \cup {[key |-> hkey[c], res |-> makeTextResponse(v, "MISS")]}
                     /\ settle(c, v, "")
           ELSE /\ settle(c, v, "")
                /\ puts' = puts
    /\ UNCHANGED <<seen, probe, meta, impl, pc, body, hkey, matched, awaiting, resp, calls, sent,
                   store>>

\* upstream.text() rejects (the connection is lost while the body is read)
BodyFail(c) ==
    /\ ~Draining
    /\ impl = "index"
    /\ comp[c].st = "reading"
    /\ settle(c, failureValue(LostMsg), "transport")
    /\ UNCHANGED <<seen, probe, meta, impl, pc, body, hkey, matched, awaiting, resp, calls, sent,
                   store, puts>>

\* part_000: no try/catch and no timer; a failure rejects the computation
LegacyFetchFail(c) ==
    /\ ~Draining
    /\ impl = "legacy"
    /\ comp[c].st = "fetching"
    /\ settle(c, Rejection(LostMsg), "transport")
    /\ UNCHANGED <<seen, probe, meta, impl, pc, body, hkey, matched, awaiting, resp, calls, sent,
                   store, puts>>

LegacyBodyComplete(c, status) ==
    /\ ~Draining
    /\ impl = "legacy"
    /\ comp[c].st = "reading"
    /\ LET v == InflightValue(status, DataText(c), isOkStatus(status))
       IN  IF isNullBodyStatus(v.status)
           THEN /\ settle(c, Rejection(NullBodyMsg), "construct")
                /\ puts' = puts
           ELSE /\ settle(c, v, "")
                /\ puts' = IF shouldCache(v)
                           THEN puts \cup {[key |-> hkey[c], res |-> makeTextResponse(v, "MISS")]}
                           ELSE puts
    /\ UNCHANGED <<seen, probe, meta, impl, pc, body, hkey, matched, awaiting, resp, calls, sent,
                   store>>

LegacyBodyFail(c) ==
    /\ ~Draining
    /\ impl = "legacy"
    /\ comp[c].st = "reading"
    /\ settle(c, Rejection(LostMsg), "transport")
    /\ UNCHANGED <<seen, probe, meta, impl, pc, body, hkey, matched, awaiting, resp, calls, sent,
                   store, puts>>

xCacheOf(im, r, c) == IF r = c \/ im = "legacy" THEN "MISS" ELSE "COALESCED"

ResumeRetries(r) ==
    /\ pc[r] = "await"
    /\ comp[awaiting[r]].st = "settled"
    /\ LET v == comp[awaiting[r]].val
       IN  IF v.rejected \/ ~v.ok
           THEN /\ calls' = [calls EXCEPT ![r] = @ + 1]
                /\ comp' = [comp EXCEPT ![r] = [NoComputation EXCEPT !.st = "fetching"]]
                /\ inflight' = inflightSet(inflight, hkey[r], r)
                /\ awaiting' = [awaiting EXCEPT ![r] = r]
                /\ UNCHANGED <<pc, resp>>
           ELSE /\ pc' = [pc EXCEPT ![r] = "done"]
                /\ resp' = [resp EXCEPT ![r] = makeTextResponse(v, xCacheOf(impl, r, awaiting[r]))]
                /\ UNCHANGED <<calls, comp, inflight, awaiting>>
    /\ matched' = [matched EXCEPT ![r] = ""]
    /\ UNCHANGED <<seen, probe, meta, impl, body, hkey, sent, store, puts>>

\* `await p` / `await existing` resumes with the settled promise
Resume(r) ==
    /\ pc[r] = "await"
    /\ comp[awaiting[r]].st = "settled"
    /\ LET v == comp[awaiting[r]].val
       IN  IF v.rejected
           THEN /\ pc' = [pc EXCEPT ![r] = "threw"]
                /\ resp' = resp
           ELSE /\ pc' = [pc EXCEPT ![r] = "done"]
                /\ resp' = [resp EXCEPT ![r] = makeTextResponse(v, xCacheOf(impl, r, awaiting[r]))]
    /\ matched' = [matched EXCEPT ![r] = ""]
    /\ UNCHANGED <<seen, probe, meta, impl, body, hkey, awaiting, calls, sent, comp, inflight, store,
                   puts>>

(***************************************************************************)
(* The durable cache.                                                      *)
(***************************************************************************)
\* a cache.put handed to waitUntil completes
PutDone(p) ==
    /\ p \in puts
    /\ store' = [k \in DOMAIN store \cup {p.key} |-> IF k = p.key THEN p.res ELSE store[k]]
    /\ puts' = puts \ {p}
    /\ UNCHANGED <<seen, probe, meta, impl, pc, body, hkey, matched, awaiting, resp, calls, sent, comp,
                   inflight>>

\* a cache.put rejects: .catch logs it (part_000: an unhandled rejection in waitUntil)
PutFail(p) ==
    /\ p \in puts
    /\ puts' = puts \ {p}
    /\ UNCHANGED <<seen, probe, meta, impl, pc, body, hkey, matched, awaiting, resp, calls, sent, comp,
                   inflight, store>>

\* the store drops an entry whose s-maxage has run out
Expire(k) ==
    /\ k \in DOMAIN store
    /\ store' = [j \in DOMAIN store \ {k} |-> store[j]]
    /\ UNCHANGED <<seen, probe, meta, impl, pc, body, hkey, matched, awaiting, resp, calls, sent, comp,
                   inflight, puts>>

\* the caller of a driver goes away while it awaits p; nothing in the handler
\* or in the computation reacts to it
Cancel(r) ==
    /\ pc[r] = "await"
    /\ awaiting[r] = r
    /\ pc' = [pc EXCEPT ![r] = "gone"]
    /\ matched' = [matched EXCEPT ![r] = ""]
    /\ UNCHANGED <<seen, probe, meta, impl, body, hkey, awaiting, resp, calls, sent, comp, inflight,
                   store, puts>>

Keys == {hkey[r] : r \in Req} \ {NoKey}

Next ==
    \/ \E r \in Req, b \in BodyIds : Arrive(r, b)
    \/ \E r \in Req : MatchHit(r)
    \/ \E r \in Req : MatchMiss(r)
    \/ \E r \in Req : MatchFail(r)
    \/ \E r \in Req : LegacyMatchFail(r)
    \/ \E c \in Req : HeadersArrive(c)
    \/ \E c \in Req : FetchFail(c)
    \/ \E c \in Req : Timeout(c)
    \/ \E c \in Req, status \in UpstreamStatuses : BodyComplete(c, status)
    \/ \E c \in Req : BodyFail(c)
    \/ \E c \in Req : LegacyFetchFail(c)
    \/ \E c \in Req, status \in UpstreamStatuses : LegacyBodyComplete(c, status)
    \/ \E c \in Req : LegacyBodyFail(c)
    \/ \E r \in Req : Resume(r)
    \/ \E p \in puts : PutDone(p)
    \/ \E p \in puts : PutFail(p)
    \/ \E k \in Keys : Expire(k)
    \/ \E r \in Req : Cancel(r)

Spec == Init /\ [][Next]_vars

(***************************************************************************)
(* Fairness: the runtime fires an armed timer and resumes a handler whose  *)
(* awaited promise has settled.  The origin owes nothing: it may answer,   *)
(* fail, or stay silent.                                                   *)
(***************************************************************************)
FairSpec ==
    /\ Spec
    /\ \A c \in Req : WF_vars(Timeout(c))
    /\ \A r \in Req : WF_vars(Resume(r))

(***************************************************************************)
(* Properties.                                                             *)
(***************************************************************************)
Registered(c) == hkey[c] \in DOMAIN inflight /\ inflight[hkey[c]] = c
Pending(c) == comp[c].st \in Unsettled
Follower(r) == pc[r] = "await" /\ awaiting[r] # r

\* C1: for every key at most one upstream call is in flight and at most one
\* computation is pending, the pending computation is the one registered, a
\* registration is never that of another key or of a settled computation, and
\* a request that found a pending registration has issued no upstream call and
\* registered nothing.
C1_OneInFlightPerKey ==
    /\ \A c1, c2 \in Req :
           (c1 # c2 /\ Pending(c1) /\ Pending(c2)) => hkey[c1] # hkey[c2]
    /\ \A c \in Req : Pending(c) => Registered(c)
    /\ \A k \in DOMAIN inflight : Pending(inflight[k]) /\ hkey[inflight[k]] = k
    /\ \A r \in Req : Follower(r) => calls[r] = 0 /\ comp[r].st = "none"

\* a request has found a pending registration and awaits it
C1_Witness ==
    \E r \in Req : Follower(r) /\ Pending(awaiting[r]) /\ Registered(awaiting[r])

SameKey(k) == {r \in Req : hkey[r] = k}
NeverStored(k) ==
    \A c \in Req : (hkey[c] = k /\ comp[c].st = "settled") => ~comp[c].val.ok

\* C2 (as claimed): for requests with identical query and variables that are
\* concurrent (each arrived before the other was answered), whose key had no
\* durable entry when they arrived and that were not served from the durable
\* cache, the origin has received exactly one call for the key, and those of
\* them that have been answered have the same status and body.
C2_ExactlyOneCallWhenConcurrent ==
    \A q, r \in Req :
        ( /\ impl = "index"
          /\ q \in seen[r]
          /\ body[q] = body[r]
          /\ awaiting[q] # NoComp
          /\ awaiting[r] # NoComp
          /\ \A e \in SameKey(hkey[q]) : seen[e] = {} => e = q )
        => /\ calls[q] + calls[r] = 1
           /\ (pc[q] = "done" /\ pc[r] = "done")
                  => (resp[q].status = resp[r].status /\ resp[q].text = resp[r].text)

\* C2 (amended): requests for one key that miss the durable cache and look the
\* key up while a computation for it is pending all await that one
\* computation; a computation has exactly one upstream call, issued by its
\* driver, and its followers have issued none; every request answered from a
\* computation has the status and body of that computation's value.
C2_CoalescedWhilePending ==
    /\ \A q, r \in Req :
           ( /\ pc[q] = "await"
             /\ pc[r] = "await"
             /\ hkey[q] = hkey[r]
             /\ Pending(awaiting[q])
             /\ Pending(awaiting[r]) )
           => awaiting[q] = awaiting[r]
    /\ \A c \in Req : comp[c].st # "none" => calls[c] = 1
    /\ \A r \in Req : (awaiting[r] # NoComp /\ awaiting[r] # r) => calls[r] = 0
    /\ \A r \in Req :
           (pc[r] = "done" /\ awaiting[r] # NoComp)
           => /\ comp[awaiting[r]].st = "settled"
              /\ resp[r].status = comp[awaiting[r]].val.status
              /\ resp[r].text = comp[awaiting[r]].val.text

\* a driver and a follower with the same body have both been answered from
\* the one computation
C2_Witness ==
    \E q, r \in Req :
        /\ impl = "index"
        /\ q # r
        /\ body[q] = body[r]
        /\ pc[q] = "done"
        /\ pc[r] = "done"
        /\ awaiting[q] = q
        /\ awaiting[r] = q
        /\ calls[q] = 1
        /\ calls[r] = 0
        /\ resp[r].xcache = "COALESCED"
        /\ resp[q].status = resp[r].status
        /\ resp[q].text = resp[r].text

FreshAfterSettle ==
    \A r \in Req :
        ( /\ pc[r] = "match"
          /\ pc'[r] = "await"
          /\ \A c \in Req : hkey[c] = hkey[r] => ~Pending(c) )
        => /\ awaiting'[r] = r
           /\ comp'[r].st = "fetching"
           /\ calls'[r] = calls[r] + 1

\* C3: the registry never holds the registration of a settled computation,
\* whether it settled with a value, a synthesized failure or a rejection; and
\* a request that misses the durable cache when no computation for its key is
\* pending starts a fresh computation.
C3_RemovedOnSettle ==
    /\ [](\A c \in Req : comp[c].st = "settled" => ~Registered(c))
    /\ [](\A k \in DOMAIN inflight : Pending(inflight[k]))
    /\ [][FreshAfterSettle]_vars

\* a computation has settled in failure, its registration is gone, and a later
\* request for the key drives a fresh computation
C3_Witness ==
    \E c1, c2 \in Req :
        /\ c1 < c2
        /\ hkey[c1] = hkey[c2]
        /\ comp[c1].st = "settled"
        /\ ~comp[c1].val.ok
        /\ ~Registered(c1)
        /\ Pending(c2)
        /\ Registered(c2)

\* C4: every entry in the durable store, and every entry on its way there,
\* has a success status and an upstream body, and is the value of a settled
\* computation whose ok flag is true; no entry is a synthesized 502 or 504.
C4_OnlyOkCached ==
    \A e \in {store[k] : k \in DOMAIN store} \cup {p.res : p \in puts} :
        /\ isOkStatus(e.status)
        /\ e.status \notin {502, 504}
        /\ e.text.kind = "data"
        /\ \E c \in Req :
               /\ comp[c].st = "settled"
               /\ comp[c].val.ok
               /\ e.status = comp[c].val.status
               /\ e.text = comp[c].val.text

\* one computation timed out and nothing is stored for its key, while an ok
\* value of another key is in the store
C4_Witness ==
    \E c1, c2 \in Req :
        /\ comp[c1].cause = "abort"
        /\ comp[c1].val.status = 504
        /\ hkey[c1] \notin DOMAIN store
        /\ comp[c2].val.ok
        /\ hkey[c2] \in DOMAIN store

\* C5: a request whose cache.match finds an entry is answered with that
\* entry's status and body and X-Cache HIT in a step that issues no upstream
\* call and leaves the in-flight registry, the computations and what requests
\* await as they were; a request answered HIT never issued a call, awaited a
\* registration or drove a computation; and a request that misses (the entry
\* has expired or was never stored) when the registry holds nothing for its
\* key issues a fresh upstream call.
C5_HitServedFromStore ==
    /\ [][\A r \in Req :
            /\ (pc[r] = "match" /\ pc'[r] = "done")
               => /\ hkey[r] \in DOMAIN store
                  /\ resp'[r].status = store[hkey[r]].status
                  /\ resp'[r].text = store[hkey[r]].text
                  /\ resp'[r].xcache = "HIT"
                  /\ UNCHANGED <<calls, sent, inflight, comp, awaiting, store>>
            /\ (pc[r] = "match" /\ matched'[r] = "miss")
               => /\ hkey[r] \notin DOMAIN store
                  /\ hkey[r] \notin DOMAIN inflight
                         => /\ calls'[r] = calls[r] + 1
                            /\ comp'[r].st = "fetching"]_vars
    /\ [](\A r \in Req :
            resp[r].xcache = "HIT"
            => /\ calls[r] = 0
               /\ awaiting[r] = NoComp
               /\ comp[r].st = "none"
               /\ sent[r] = NoSent)

\* a request was answered HIT with the body another request's computation
\* fetched, without a call of its own; the entry has expired since
C5_Witness ==
    \E q, r \in Req :
        /\ q # r
        /\ pc[r] = "done"
        /\ resp[r].xcache = "HIT"
        /\ resp[r].status = comp[q].val.status
        /\ resp[r].text = comp[q].val.text
        /\ calls[r] = 0
        /\ calls[q] = 1
        /\ hkey[r] \notin DOMAIN store

FailingGetIsMiss ==
    \A r \in Req :
        (pc[r] = "match" /\ matched'[r] = "fail")
        => /\ pc'[r] = "await"
           /\ resp'[r] = resp[r]
           /\ IF hkey[r] \in DOMAIN inflight
              THEN /\ awaiting'[r] = inflight[hkey[r]]
                   /\ UNCHANGED <<calls, sent, comp, inflight>>
              ELSE /\ awaiting'[r] = r
                   /\ calls'[r] = calls[r] + 1
                   /\ comp'[r].st = "fetching"
                   /\ hkey[r] \in DOMAIN inflight'
                   /\ inflight'[hkey[r]] = r

FailingPutChangesNothing ==
    (puts' # puts /\ puts' \subseteq puts /\ store' = store)
    => UNCHANGED <<pc, resp, comp, inflight, awaiting, calls>>

\* C6 (index.ts): no handler ends in an exception; a cache.match that throws
\* takes the request where a miss would (to the pending registration of its
\* key if there is one, else to a registration and an upstream call of its
\* own); a cache.put that fails changes no response, no computation and no
\* registration; and every request answered from a computation has that
\* computation's status and body whatever became of the put.
C6_StoreFailuresNeverSurface ==
    /\ [](impl = "index" => \A r \in Req : pc[r] # "threw")
    /\ [][impl = "index" => FailingGetIsMiss]_vars
    /\ [][impl = "index" => FailingPutChangesNothing]_vars
    /\ [](impl = "index" =>
            \A r \in Req :
                (pc[r] = "done" /\ awaiting[r] # NoComp)
                => /\ resp[r].status = comp[awaiting[r]].val.status
                   /\ resp[r].text = comp[awaiting[r]].val.text
                   /\ ~Registered(awaiting[r]))

\* a request was answered from a computation whose entry is not in the store
\* (its put failed or the entry expired); the cache.match of the next request
\* for the key threw, and that request went on to an upstream call of its own
C6_Witness ==
    \E q, r \in Req :
        /\ impl = "index"
        /\ q # r
        /\ hkey[q] = hkey[r]
        /\ pc[q] = "done"
        /\ comp[q].val.ok
        /\ hkey[q] \notin DOMAIN store
        /\ puts = {}
        /\ pc[r] = "await"
        /\ matched[r] = "fail"
        /\ calls[r] = 1

mentionsTimeout(c) == includes(toLowerCase(comp[c].val.text.message), TimeoutMsg)

C8_FollowerEventuallyAnswered ==
    \A r \in Req :
        (impl = "index" /\ Follower(r))
        ~> (pc[r] = "done" /\ awaiting[r] # NoComp
                           /\ resp[r].status = comp[awaiting[r]].val.status)

(***************************************************************************)
(* Reading keys and forwarded bodies back.                                 *)
(***************************************************************************)
\* the member `name` of the canonical object a key is the digest of
keyMember(k, name) ==
    LET o == k[2]
    IN  o.kids[CHOOSE i \in 1..Len(o.kids) : o.kids[i].k = name].v

RECURSIVE firstsInRange(_, _)
firstsInRange(im, v) ==
    isObjectLike(v)
    => \A i \in 1..Len(v.kids) :
           /\ (v.kids[i].k = "first" /\ isNumber(v.kids[i].v))
              => /\ v.kids[i].v.t = "num"
                 /\ 2 * FIRST_MIN <= v.kids[i].v.n
                 /\ v.kids[i].v.n <= 2 * firstMax(im)
           /\ firstsInRange(im, v.kids[i].v)

aboveCeiling(im, v) == (v.t = "num" /\ v.n > 2 * firstMax(im)) \/ (v.t = "inf" /\ v.n = 1)
belowFloor(v) == (v.t = "num" /\ v.n < 2 * FIRST_MIN) \/ (v.t = "inf" /\ v.n = -1)

\* x and y are the same tree except for `first` members that are numbers on
\* the same side of the range; with finiteAbove, a number above the ceiling
\* has to be finite
RECURSIVE differOnlyInFirst(_, _, _, _)
differOnlyInFirst(im, finiteAbove, x, y) ==
    IF isObjectLike(x) /\ x.t = y.t /\ Len(x.kids) = Len(y.kids)
    THEN \A i \in 1..Len(x.kids) :
             LET a == x.kids[i]
                 b == y.kids[i]
             IN  /\ a.k = b.k
                 /\ IF a.k = "first" /\ isNumber(a.v) /\ isNumber(b.v)
                    THEN \/ a.v = b.v
                         \/ /\ aboveCeiling(im, a.v)
                            /\ aboveCeiling(im, b.v)
                            /\ finiteAbove => (a.v.t = "num" /\ b.v.t = "num")
                         \/ belowFloor(a.v) /\ belowFloor(b.v)
                    ELSE differOnlyInFirst(im, finiteAbove, a.v, b.v)
    ELSE x = y

Collapse(finiteAbove) ==
    \A q, r \in Req :
        ( /\ body[q] # 0
          /\ body[r] # 0
          /\ Bodies[body[q]].query = Bodies[body[r]].query
          /\ differOnlyInFirst(impl, finiteAbove,
                               Bodies[body[q]].variables, Bodies[body[r]].variables) )
        => /\ hkey[q] = hkey[r]
           /\ (calls[q] > 0 /\ calls[r] > 0) => sent[q] = sent[r]

\* pairs of variables that differ in an out-of-range `first`
ClampCases ==
    { <<JObj(<<KV("first", Num(0))>>), JObj(<<KV("first", Num(-7))>>)>>,
      <<JObj(<<KV("first", JNum(1))>>), JObj(<<KV("first", JInf(-1))>>)>>,
      <<JObj(<<KV("first", JNum(403))>>), JObj(<<KV("first", Num(100000))>>)>>,
      <<JObj(<<KV("where", JObj(<<KV("first", Num(300))>>)), KV("skip", Num(5))>>),
        JObj(<<KV("where", JObj(<<KV("first", Num(201))>>)), KV("skip", Num(5))>>)>>,
      <<JObj(<<KV("ids", JArr(<<JObj(<<KV("first", Num(9999))>>)>>))>>),
        JObj(<<KV("ids", JArr(<<JObj(<<KV("first", Num(1000))>>)>>))>>)>> }

\* C9 (as claimed): two requests with the same query whose variables differ
\* only in a `first` that is out of range on the same side (both above the
\* ceiling or both below the floor) have the same cache key and, when both
\* call upstream, forward the same body.
C9_OutOfRangeFirstCollapses == Collapse(FALSE)

\* C9 (amended): the key is derived from, and the upstream body built from,
\* variables in which every numeric `first` is within the range; two requests
\* with the same query whose variables differ only in a `first` that is
\* finite and above the ceiling in both, or below the floor in both, have the
\* same cache key and forward the same body.
C9_ClampedBeforeKeyAndForward ==
    /\ Collapse(TRUE)
    /\ \A r \in Req :
           /\ hkey[r] # NoKey => firstsInRange(impl, keyMember(hkey[r], "variables"))
           /\ calls[r] > 0 => firstsInRange(impl, sent[r].variables)
    /\ \A pair \in ClampCases :
           /\ differOnlyInFirst(impl, TRUE, pair[1], pair[2])
           /\ hashKey(impl, QVar, clampPagination(impl, pair[1]))
                  = hashKey(impl, QVar, clampPagination(impl, pair[2]))
           /\ stringify(clampPagination(impl, pair[1]))
                  = stringify(clampPagination(impl, pair[2]))

\* a request with first: 9999 drove the call and its entry was stored; a
\* request with first: 5000 was answered from that entry without a call
C9_Witness ==
    \E q, r \in Req :
        /\ body[q] # 0
        /\ body[r] # 0
        /\ Bodies[body[q]].variables = JObj(<<KV("first", Num(9999))>>)
        /\ Bodies[body[r]].variables = JObj(<<KV("first", Num(5000))>>)
        /\ hkey[q] = hkey[r]
        /\ calls[q] = 1
        /\ sent[q].variables = JObj(<<KV("first", Num(firstMax(impl)))>>)
        /\ pc[r] = "done"
        /\ resp[r].xcache = "HIT"
        /\ resp[r].text = comp[q].val.text
        /\ calls[r] = 0

(***************************************************************************)
(* An inline argument of the query text: the tokens first : <numeral>.     *)
(***************************************************************************)
numeralValue(tok) ==
    CASE tok = "9999" -> 9999
      [] tok = "200" -> 200
      [] tok = "50" -> 50
      [] OTHER -> -1

hasInlineFirst(query) ==
    \E i \in 1..(Len(query) - 2) :
        query[i] = "first" /\ query[i + 1] = ":" /\ numeralValue(query[i + 2]) >= 0

inlineFirst(query) ==
    LET i == CHOOSE j \in 1..(Len(query) - 2) :
                 query[j] = "first" /\ query[j + 1] = ":" /\ numeralValue(query[j + 2]) >= 0
    IN  numeralValue(query[i + 2])

InlineCase(r) ==
    /\ body[r] # 0
    /\ hasInlineFirst(Bodies[body[r]].query)
    /\ inlineFirst(Bodies[body[r]].query) > firstMax(impl)
    /\ Bodies[body[r]].variables = JObj(<<>>)

\* C10 (as claimed): when a request whose query text carries an inline
\* first: 9999, with empty variables, calls upstream, the `first` of the
\* query in its cache key and of the query it forwards is the ceiling.
C10_InlineFirstClamped ==
    \A r \in Req :
        (InlineCase(r) /\ calls[r] > 0)
        => /\ inlineFirst(keyMember(hkey[r], "query").s) = firstMax(impl)
           /\ inlineFirst(sent[r].query) = firstMax(impl)

\* C10 (amended): the query text is hashed and forwarded as it was received,
\* so an inline first: 9999 stays 9999 in the key and in the upstream body and
\* the empty variables stay empty; a `first` of 9999 in the variables is the
\* ceiling in the key and in the upstream body.
C10_InlineFirstOpaque ==
    \A r \in Req :
        calls[r] > 0
        => /\ sent[r].query = Bodies[body[r]].query
           /\ keyMember(hkey[r], "query") = JStr(Bodies[body[r]].query)
           /\ InlineCase(r)
              => /\ inlineFirst(sent[r].query) = 9999
                 /\ inlineFirst(keyMember(hkey[r], "query").s) = 9999
                 /\ sent[r].variables = JObj(<<>>)
                 /\ keyMember(hkey[r], "variables") = JObj(<<>>)
           /\ Bodies[body[r]].variables = JObj(<<KV("first", Num(9999))>>)
              => /\ sent[r].variables = JObj(<<KV("first", Num(firstMax(impl)))>>)
                 /\ keyMember(hkey[r], "variables") = JObj(<<KV("first", Num(firstMax(impl)))>>)

\* the request with the inline first: 9999 has called upstream with its query
\* text unchanged, and a request with first: 9999 in its variables has called
\* upstream with the ceiling
C10_Witness ==
    \E q, r \in Req :
        /\ InlineCase(q)
        /\ calls[q] = 1
        /\ sent[q].query = QInline
        /\ body[r] # 0
        /\ Bodies[body[r]].variables = JObj(<<KV("first", Num(9999))>>)
        /\ calls[r] = 1
        /\ sent[r].variables = JObj(<<KV("first", Num(firstMax(impl)))>>)

(***************************************************************************)
(* clampPagination applied on its own to variable trees.                   *)
(***************************************************************************)
MaxDepth == 2
IdsOver == 1

FirstInputs ==
    { JInf(1), JInf(-1), Num(-7), JNum(-1), Num(0), JNum(1), Num(1), JNum(5), Num(50),
      Num(51), Num(200), JNum(401), Num(201), Num(9999), JStr(<<"9999">>) }
SkipInputs == { JInf(1), Num(-1), Num(0), JNum(7), Num(100000), Num(100001), JNull }
IdsLengths == { 0, 3, IDS_MAX, IDS_MAX + IdsOver }
IdsKeys == { "ids", "tokenIds", "raffleIds", "where" }

ClampLeaves ==
    { JObj(<<KV("first", x)>>) : x \in FirstInputs }
    \cup { JObj(<<KV("skip", y), KV("first", Num(300))>>) : y \in SkipInputs }
    \cup { JObj(<<KV(k, JArr([i \in 1..n |-> Num(i)]))>>) : k \in IdsKeys, n \in IdsLengths }
    \cup { JObj(<<KV("ids", JArr(<<JObj(<<KV("first", Num(9999))>>), Num(2)>>))>>),
           JObj(<<KV("first", JObj(<<KV("first", Num(0))>>))>>),
           JObj(<<KV("ids", JObj(<<KV("skip", Num(-3))>>))>>) }

\* a leaf at nesting depth d: under objects and arrays in turn
RECURSIVE nest(_, _)
nest(d, leaf) ==
    IF d = 0 THEN leaf
    ELSE IF d % 2 = 1 THEN JObj(<<KV("where", nest(d - 1, leaf))>>)
    ELSE JArr(<<Num(7), nest(d - 1, leaf)>>)

ClampInputs == { nest(d, leaf) : d \in 0..MaxDepth, leaf \in ClampLeaves }

ClampInit ==
    /\ InitWorker
    /\ probe \in { [fn |-> "clampPagination", input |-> t, output |-> JNull, applied |-> FALSE] :
                       t \in ClampInputs }

ClampApply ==
    /\ probe.fn = "clampPagination"
    /\ ~probe.applied
    /\ probe' = [probe EXCEPT !.output = clampPagination(impl, probe.input), !.applied = TRUE]
    /\ UNCHANGED <<seen, meta, impl, pc, body, hkey, matched, awaiting, resp, calls, sent, comp,
                   inflight, store, puts>>

ClampNext == ClampApply

ClampSpec == ClampInit /\ [][ClampNext]_vars

within(v, min, max) == v.t = "num" /\ v.n % 2 = 0 /\ 2 * min <= v.n /\ v.n <= 2 * max

\* what clamping owes: out is in with every numeric first and skip brought
\* into its range and every ids array cut to a prefix
RECURSIVE wellClamped(_, _, _)
wellClampedMember(im, a, b) ==
    /\ b.k = a.k
    /\ IF a.k = "first" /\ isNumber(a.v)
       THEN /\ within(b.v, FIRST_MIN, FIRST_MAX)
            /\ within(b.v, FIRST_MIN, firstMax(im))
            /\ a.v.t = "inf" => b.v = Num(FIRST_MIN)
            /\ within(a.v, FIRST_MIN, firstMax(im)) => b.v = a.v
       ELSE IF a.k = "skip" /\ isNumber(a.v)
       THEN /\ within(b.v, SKIP_MIN, SKIP_MAX)
            /\ a.v.t = "inf" => b.v = Num(SKIP_MIN)
            /\ within(a.v, SKIP_MIN, SKIP_MAX) => b.v = a.v
       ELSE IF (a.k = "ids" \/ endsWithIds(a.k)) /\ a.v.t = "arr"
       THEN /\ b.v.t = "arr"
            /\ Len(b.v.kids) <= IDS_MAX
            /\ Len(b.v.kids) = Min(Len(a.v.kids), IDS_MAX)
            /\ \A j \in 1..Len(b.v.kids) :
                   /\ wellClamped(im, a.v.kids[j].v, b.v.kids[j].v)
                   /\ ~isObjectLike(a.v.kids[j].v) => b.v.kids[j] = a.v.kids[j]
       ELSE wellClamped(im, a.v, b.v)

wellClamped(im, in, out) ==
    IF ~isObjectLike(in) THEN out = in
    ELSE /\ out.t = in.t
         /\ Len(out.kids) = Len(in.kids)
         /\ \A i \in 1..Len(in.kids) : wellClampedMember(im, in.kids[i], out.kids[i])

\* C11: after clamping, at every nesting depth, each numeric `first` is an
\* integer in [1, 200] (in [1, 50] in part_000; 1 for a non-finite input),
\* each numeric `skip` is an integer in [0, 100000], each array under `ids` or
\* a key ending in `Ids` has at most 200 elements and is the prefix of the
\* input array (its elements clamped in turn), values already in range and
\* everything else are unchanged.
C11_ClampRanges ==
    (probe.fn = "clampPagination" /\ probe.applied)
    => wellClamped(impl, probe.input, probe.output)

\* an array of 201 ids two levels down has been cut to its first 200
C11_Witness ==
    /\ probe.fn = "clampPagination"
    /\ probe.applied
    /\ probe.input = nest(MaxDepth, JObj(<<KV("tokenIds", JArr([i \in 1..(IDS_MAX + IdsOver) |-> Num(i)]))>>))
    /\ probe.output = nest(MaxDepth, JObj(<<KV("tokenIds", JArr([i \in 1..IDS_MAX |-> Num(i)]))>>))

(***************************************************************************)
(* pickTtlSeconds.  The query text is a sequence of pieces (parts of       *)
(* names, punctuation); q.includes(name) is the name's pieces occurring    *)
(* next to each other in the lowercased text.                              *)
(***************************************************************************)
DEFAULT_TTL_SECONDS == 5
HOT_TTL == 3
STABLE_TTL == 10

pickTtlSecondsCaseSensitive(im, query, variables) ==
    LET q == query
    IN  IF includes(q, <<"global", "feed">>) \/ includes(q, <<"raffle", "events">>)
        THEN HOT_TTL
        ELSE IF im = "index"
        THEN IF includes(q, <<"_", "meta">>) \/ includes(q, <<"_", "_", "meta">>)
             THEN HOT_TTL
             ELSE IF \/ includes(q, <<"raffle", "by", "id">>)
                     \/ includes(q, <<"raffle", "(">>)
                     \/ includes(q, <<"raffle", "participants">>)
             THEN STABLE_TTL
             ELSE DEFAULT_TTL_SECONDS
        ELSE IF includes(q, <<"raffle", "participants">>)
        THEN DEFAULT_TTL_SECONDS
        ELSE DEFAULT_TTL_SECONDS

pickTtlSeconds(im, query, variables) ==
    LET q == toLowerCase(query)
    IN  IF includes(q, <<"global", "feed">>) \/ includes(q, <<"raffle", "events">>)
        THEN HOT_TTL
        ELSE IF im = "index"
        THEN IF includes(q, <<"_", "meta">>) \/ includes(q, <<"_", "_", "meta">>)
             THEN HOT_TTL
             ELSE IF \/ includes(q, <<"raffle", "by", "id">>)
                     \/ includes(q, <<"raffle", "(">>)
                     \/ includes(q, <<"raffle", "participants">>)
             THEN STABLE_TTL
             ELSE DEFAULT_TTL_SECONDS
        ELSE IF includes(q, <<"raffle", "participants">>)
        THEN DEFAULT_TTL_SECONDS
        ELSE DEFAULT_TTL_SECONDS

MaxQueryLen == 3
Pieces ==
    { "global", "Feed", "feed", "raffle", "Events", "By", "Id", "(", "Participants", "_",
      "meta", "s" }
Queries == UNION { [1..n -> Pieces] : n \in 1..MaxQueryLen }
TtlVariables == { JObj(<<>>), JObj(<<KV("first", Num(9999))>>) }

PickInit ==
    /\ InitWorker
    /\ probe \in { [fn |-> "pickTtlSeconds",
                    input |-> JObj(<<KV("query", JStr(q)), KV("variables", v)>>),
                    output |-> JNull, applied |-> FALSE] : q \in Queries, v \in TtlVariables }

PickApply ==
    /\ probe.fn = "pickTtlSeconds"
    /\ ~probe.applied
    /\ probe' = [probe EXCEPT
                    !.output = Num(pickTtlSeconds(impl, probe.input.kids[1].v.s,
                                                  probe.input.kids[2].v)),
                    !.applied = TRUE]
    /\ UNCHANGED <<seen, meta, impl, pc, body, hkey, matched, awaiting, resp, calls, sent, comp,
                   inflight, store, puts>>

PickNext == PickApply

PickSpec == PickInit /\ [][PickNext]_vars

\* the name occurs in the text, whatever the case of its letters
occurs(text, name) ==
    \E i \in 1..Len(text) :
        /\ i + Len(name) - 1 <= Len(text)
        /\ \A j \in 1..Len(name) : toLowerCase(<<text[i + j - 1]>>) = <<name[j]>>

hot(im, text) ==
    \/ occurs(text, <<"global", "feed">>)
    \/ occurs(text, <<"raffle", "events">>)
    \/ im = "index" /\ occurs(text, <<"_", "meta">>)

stable(im, text) ==
    /\ im = "index"
    /\ \/ occurs(text, <<"raffle", "by", "id">>)
       \/ occurs(text, <<"raffle", "(">>)
       \/ occurs(text, <<"raffle", "participants">>)

probeQuery == probe.input.kids[1].v.s

\* C12 (as claimed): the TTL is 3 for a query that contains a hot operation
\* name and the default 5 for every other query.
C12_HotOrDefault ==
    (probe.fn = "pickTtlSeconds" /\ probe.applied)
    => probe.output = Num(IF hot(impl, probeQuery) THEN HOT_TTL ELSE DEFAULT_TTL_SECONDS)

\* C12 (amended): the TTL depends on the query text only; it is 3 for a query
\* that contains a hot name in any case of letters, otherwise (index.ts) 10
\* for a query that contains rafflebyid, raffle( or raffleparticipants, and
\* the default 5 for every other query.
C12_TtlTiers ==
    (probe.fn = "pickTtlSeconds" /\ probe.applied)
    => /\ probe.output = Num(IF hot(impl, probeQuery) THEN HOT_TTL
                             ELSE IF stable(impl, probeQuery) THEN STABLE_TTL
                             ELSE DEFAULT_TTL_SECONDS)
       /\ \A v \in TtlVariables :
              probe.output = Num(pickTtlSeconds(impl, probeQuery, v))

\* a query with raffleById and no hot name got 10 seconds from index.ts
C12_Witness ==
    /\ impl = "index"
    /\ probe.fn = "pickTtlSeconds"
    /\ probe.applied
    /\ probeQuery = <<"raffle", "By", "Id">>
    /\ probe.input.kids[2].v # JObj(<<>>)
    /\ probe.output = Num(STABLE_TTL)

(***************************************************************************)
(* The /meta endpoint of index.ts: a fixed query sent upstream with a      *)
(* timeout, the answer passed on.  MetaSpec is the worker with its /meta   *)
(* requests next to the /graphql requests.                                 *)
(***************************************************************************)
metaAnswer(status, error) == [st |-> "done", calls |-> 1, status |-> status, error |-> error]

metaFailure(msg) == metaAnswer(IF isAbortTimeout(msg) THEN 504 ELSE 502, "UPSTREAM_FETCH_FAILED")

MetaArriveShared(m) ==
    /\ ~Draining
    /\ impl = "index"
    /\ meta[m].st = "idle"
    /\ \A n \in Meta : n < m => meta[n].st # "idle"
    /\ meta' = [meta EXCEPT ![m] =
                   [@ EXCEPT !.st = "fetching",
                             !.calls = IF \E n \in Meta : meta[n].st \in Unsettled
                                       THEN 0 ELSE 1]]
    /\ UNCHANGED <<seen, probe, impl, pc, body, hkey, matched, awaiting, resp, calls, sent, comp,
                   inflight, store, puts>>

\* a request to /meta arrives and issues its fetchWithTimeout
MetaArrive(m) ==
    /\ ~Draining
    /\ impl = "index"
    /\ meta[m].st = "idle"
    /\ \A n \in Meta : n < m => meta[n].st # "idle"
    /\ meta' = [meta EXCEPT ![m] = [@ EXCEPT !.st = "fetching", !.calls = @ + 1]]
    /\ UNCHANGED <<seen, probe, impl, pc, body, hkey, matched, awaiting, resp, calls, sent, comp,
                   inflight, store, puts>>

MetaHeadersArrive(m) ==
    /\ ~Draining
    /\ meta[m].st = "fetching"
    /\ meta' = [meta EXCEPT ![m] = [@ EXCEPT !.st = "reading"]]
    /\ UNCHANGED <<seen, probe, impl, pc, body, hkey, matched, awaiting, resp, calls, sent, comp,
                   inflight, store, puts>>

\* the fetch rejects: the timer aborted it, or the transport failed
MetaFetchFail(m, msg) ==
    /\ ~Draining
    /\ meta[m].st = "fetching"
    /\ meta' = [meta EXCEPT ![m] = metaFailure(msg)]
    /\ UNCHANGED <<seen, probe, impl, pc, body, hkey, matched, awaiting, resp, calls, sent, comp,
                   inflight, store, puts>>

\* upstream.text() resolves and the response is built (a null body status
\* makes new Response throw into the catch), or upstream.text() rejects
MetaBodyComplete(m, status) ==
    /\ ~Draining
    /\ meta[m].st = "reading"
    /\ meta' = [meta EXCEPT ![m] = IF isNullBodyStatus(status)
                                   THEN metaFailure(NullBodyMsg)
                                   ELSE metaAnswer(status, "")]
    /\ UNCHANGED <<seen, probe, impl, pc, body, hkey, matched, awaiting, resp, calls, sent, comp,
                   inflight, store, puts>>

MetaBodyFail(m) ==
    /\ ~Draining
    /\ meta[m].st = "reading"
    /\ meta' = [meta EXCEPT ![m] = metaFailure(LostMsg)]
    /\ UNCHANGED <<seen, probe, impl, pc, body, hkey, matched, awaiting, resp, calls, sent, comp,
                   inflight, store, puts>>

MetaNext ==
    \/ Next
    \/ \E m \in Meta : MetaArrive(m)
    \/ \E m \in Meta : MetaHeadersArrive(m)
    \/ \E m \in Meta, msg \in {TimeoutMsg, LostMsg} : MetaFetchFail(m, msg)
    \/ \E m \in Meta, status \in UpstreamStatuses : MetaBodyComplete(m, status)
    \/ \E m \in Meta : MetaBodyFail(m)

MetaSpec == Init /\ [][MetaNext]_vars

MetaStepLeavesRest ==
    meta' # meta
    => UNCHANGED <<pc, body, hkey, matched, awaiting, resp, calls, sent, comp, inflight,
                   store, puts>>

MetaCallsOwn ==
    \A m \in Meta :
        (meta[m].st = "idle" /\ meta'[m] # meta[m])
        => /\ meta'[m].st = "fetching"
           /\ meta'[m].calls = 1
           /\ \A n \in Meta \ {m} : meta'[n] = meta[n]

\* C13: a step of a /meta request changes neither the in-flight registry nor
\* the durable store nor anything else of the /graphql requests; every /meta
\* request that has arrived has issued exactly one upstream call of its own,
\* whether or not another /meta request or a /graphql computation is pending;
\* and it is answered by no registration and no store entry.
C13_ProbeBypasses ==
    /\ [][MetaStepLeavesRest]_vars
    /\ [][MetaCallsOwn]_vars
    /\ [](\A m \in Meta : meta[m].st # "idle" => meta[m].calls = 1)
    /\ [](\A k \in DOMAIN inflight : inflight[k] \in Req)

\* two /meta requests are pending at once, each with its own call, while a
\* /graphql computation is registered and an entry is in the store
C13_Witness ==
    /\ meta[1].st = "reading"
    /\ meta[2].st = "fetching"
    /\ meta[1].calls = 1
    /\ meta[2].calls = 1
    /\ inflight # EmptyMap
    /\ store # EmptyMap

NoSecondCall ==
    \A r \in Req :
        /\ calls'[r] >= calls[r]
        /\ calls'[r] > calls[r] => (pc[r] = "match" /\ calls[r] = 0)
        /\ comp[r].st = "settled" => comp'[r] = comp[r]

\* C14: a request issues at most one upstream call, and only on its way from
\* the durable-cache read to the registry; a settled computation is never
\* started again; and a request whose call timed out, failed in transport or
\* was answered by the origin with an error status has been answered with
\* exactly that outcome after its one call.
C14_NoRetries ==
    /\ [](\A r \in Req : calls[r] <= 1)
    /\ [][NoSecondCall]_vars
    /\ [](\A r \in Req :
            (impl = "index" /\ pc[r] = "done" /\ awaiting[r] = r)
            => /\ calls[r] = 1
               /\ comp[r].st = "settled"
               /\ resp[r].status = comp[r].val.status
               /\ resp[r].text = comp[r].val.text
               /\ comp[r].cause = "abort" => resp[r].status = 504
               /\ comp[r].cause = "transport" => resp[r].status = 502)
    /\ [](\A r \in Req :
            (impl = "legacy" /\ pc[r] = "threw" /\ awaiting[r] = r) => calls[r] = 1)

\* one request was answered 504 after its call timed out, another was passed
\* the origin's 500, each after one call
C14_Witness ==
    \E q, r \in Req :
        /\ pc[q] = "done"
        /\ comp[q].cause = "abort"
        /\ resp[q].status = 504
        /\ calls[q] = 1
        /\ pc[r] = "done"
        /\ awaiting[r] = r
        /\ resp[r].status = 500
        /\ resp[r].text.kind = "data"
        /\ calls[r] = 1

Resumes(r) == pc[r] = "await" /\ pc'[r] \in {"done", "threw"}

\* C15 (as claimed): an awaiter resumes with the result of a computation only
\* while the computation's registration is still in the registry.
C15_PublishedBeforeRetired ==
    [][\A r \in Req : Resumes(r) => Registered(awaiting[r])]_vars

\* C15 (amended): the registration of a computation is removed when it
\* settles, before any awaiter resumes: every awaiter resumes with the
\* settled value when the registration is gone; between the removal and the
\* resumptions no upstream call is issued and nothing is registered, so no
\* request sees the key free while awaiters are still to resume; and every
\* answered awaiter, driver or follower, has the computation's status and
\* body.
C15_RetiredBeforePublished ==
    /\ [][\A r \in Req :
            Resumes(r)
            => /\ comp[awaiting[r]].st = "settled"
               /\ ~Registered(awaiting[r])
               /\ pc'[r] = "done"
                      => /\ resp'[r].status = comp[awaiting[r]].val.status
                         /\ resp'[r].text = comp[awaiting[r]].val.text]_vars
    /\ [][Draining => UNCHANGED <<calls, sent, comp, inflight, hkey, body>>]_vars
    /\ [](\A r \in Req :
            (pc[r] = "await" /\ ~Pending(awaiting[r]))
            => (comp[awaiting[r]].st = "settled" /\ ~Registered(awaiting[r])))

\* a follower has been answered COALESCED after the registration was removed,
\* while the driver has yet to resume
C15_Witness ==
    \E r \in Req :
        /\ pc[r] = "done"
        /\ awaiting[r] # NoComp
        /\ awaiting[r] # r
        /\ resp[r].xcache = "COALESCED"
        /\ pc[awaiting[r]] = "await"
        /\ hkey[r] \notin DOMAIN inflight

\* C16 (index.ts): every computation that has issued its upstream call
\* eventually settles, and with it every registration is eventually removed.
C16_EveryCallSettles ==
    \A c \in Req :
        (impl = "index" /\ Pending(c)) ~> (comp[c].st = "settled" /\ ~Registered(c))

Settles(c) == Pending(c) /\ comp'[c].st = "settled"

RemovesOnlyOwn ==
    /\ \A k \in DOMAIN inflight :
           k \notin DOMAIN inflight' => (Settles(inflight[k]) /\ hkey[inflight[k]] = k)
    /\ \A k \in DOMAIN inflight :
           ~Settles(inflight[k]) => (k \in DOMAIN inflight' /\ inflight'[k] = inflight[k])
    /\ \A c \in Req :
           Settles(c) => (Registered(c) /\ hkey[c] \notin DOMAIN inflight')

\* C17: a step removes a registration only if it is the step in which the
\* registered computation settles; the settling computation is the one
\* registered for its key at that moment, so what it removes is its own; and
\* every registration of another computation, of the same key or not, is
\* still there after the step.
C17_RemovesOnlyOwnRegistration ==
    /\ [][RemovesOnlyOwn]_vars
    /\ [](\A k \in DOMAIN inflight : hkey[inflight[k]] = k /\ Pending(inflight[k]))

\* a computation has settled and its registration is gone while the
\* computation another request registered for another key is still registered
C17_Witness ==
    \E c1, c2 \in Req :
        /\ hkey[c1] # hkey[c2]
        /\ comp[c1].st = "settled"
        /\ hkey[c1] \notin DOMAIN inflight
        /\ Pending(c2)
        /\ Registered(c2)

Attaches(r) == pc[r] = "match" /\ pc'[r] = "await" /\ awaiting'[r] # r

\* C18: in the step in which a request attaches to a registration, the
\* registered computation is pending (its upstream call has neither
\* returned nor failed); hence every request answered COALESCED was answered
\* by a computation that settled after the request had looked the key up and
\* that the request's handler did not drive.
C18_FollowsOnlyPending ==
    /\ [][\A r \in Req :
            Attaches(r)
            => /\ hkey[r] \in DOMAIN inflight
               /\ awaiting'[r] = inflight[hkey[r]]
               /\ Pending(awaiting'[r])
               /\ comp'[awaiting'[r]] = comp[awaiting'[r]]]_vars
    /\ [](\A r \in Req :
            resp[r].xcache = "COALESCED"
            => /\ awaiting[r] \notin {NoComp, r}
               /\ calls[r] = 0
               /\ hkey[awaiting[r]] = hkey[r]
               /\ comp[awaiting[r]].st = "settled")

\* a request that arrived while the driver was in flight has been answered
\* COALESCED with the origin's answer, which is in the store by now
C18_Witness ==
    \E r \in Req :
        /\ pc[r] = "done"
        /\ resp[r].xcache = "COALESCED"
        /\ awaiting[r] \in seen[r]
        /\ comp[awaiting[r]].val.ok
        /\ hkey[r] \in DOMAIN store
        /\ resp[r].text = store[hkey[r]].text

\* the entry is what the origin answered, with a success status, to the call
\* of a computation, and the query and variables of that call derive key k
AnswerUnder(e, k) ==
    \E c \in Req :
        /\ comp[c].st = "settled"
        /\ comp[c].val.ok
        /\ isOkStatus(e.status)
        /\ e.status = comp[c].val.status
        /\ e.text = comp[c].val.text
        /\ e.text = DataText(c)
        /\ calls[c] = 1
        /\ hashKey(impl, sent[c].query, sent[c].variables) = k

\* request r asks what the call of computation c asked
SameQuestion(r, c) ==
    /\ Bodies[body[r]].query = sent[c].query
    /\ stringify(clampPagination(impl, Bodies[body[r]].variables)) = sent[c].variables

\* C19: every entry in the durable store under key k, and every entry on its
\* way there, is the status and body the origin returned with a success
\* status to a call whose query and clamped variables derive k; and every
\* request answered with an origin body, from the store or from a
\* computation, is answered with the body of a call that carried the
\* request's own query and clamped variables.
C19_CacheIntegrity ==
    /\ \A k \in DOMAIN store : AnswerUnder(store[k], k)
    /\ \A p \in puts : AnswerUnder(p.res, p.key)
    /\ \A r \in Req :
           (pc[r] = "done" /\ resp[r].text.kind = "data")
           => /\ resp[r].text.data \in Req
              /\ hkey[resp[r].text.data] = hkey[r]
              /\ SameQuestion(r, resp[r].text.data)

\* the answers to two calls of different keys are in the store together, each
\* under its own key
C19_Witness ==
    \E c1, c2 \in Req :
        /\ hkey[c1] # hkey[c2]
        /\ hkey[c1] \in DOMAIN store
        /\ hkey[c2] \in DOMAIN store
        /\ store[hkey[c1]].text = DataText(c1)
        /\ store[hkey[c2]].text = DataText(c2)

\* C20 (index.ts): a settled computation is never a rejection: it holds a
\* value with a status and a body, which is the origin's answer or, after a
\* transport error, a timeout, a failed body read or a response that could
\* not be built for the cache write, a synthesized entry with ok = false; no
\* handler ends in an exception, and every answered awaiter has the status
\* and body of the value.
C20_ComputationNeverThrows ==
    impl = "index"
    => /\ \A c \in Req :
              comp[c].st = "settled"
              => /\ ~comp[c].val.rejected
                 /\ comp[c].val.status >= 200
                 /\ comp[c].val.text.kind \in {"data", "error"}
                 /\ comp[c].cause # ""
                        => /\ ~comp[c].val.ok
                           /\ comp[c].val.text.kind = "error"
                           /\ comp[c].val.status \in {502, 504}
       /\ \A r \in Req :
              /\ pc[r] # "threw"
              /\ (pc[r] = "done" /\ awaiting[r] # NoComp)
                 => /\ resp[r].status = comp[awaiting[r]].val.status
                    /\ resp[r].text = comp[awaiting[r]].val.text
                    /\ resp[r].text.kind # "none"

\* the response for the cache write could not be built (upstream status 204);
\* the driver and a follower were both answered with the synthesized 502
C20_Witness ==
    \E c, r \in Req :
        /\ impl = "index"
        /\ r # c
        /\ comp[c].cause = "construct"
        /\ awaiting[r] = c
        /\ pc[c] = "done"
        /\ pc[r] = "done"
        /\ resp[c].status = 502
        /\ resp[r].status = 502
        /\ resp[r].text = resp[c].text
====
